---------------------------- MODULE Spec2Model ----------------------------
(***************************************************************************)
(* Model of metabolic_app.py: the Streamlit password gate, the loading of  *)
(* the readings, the embedded self-tests and prepare_df_plot, the function *)
(* that derives the displayed glucose/ketone columns and the GKI.          *)
(*                                                                         *)
(* Numbers are modelled as the program computes them: every numeric value  *)
(* carries the IEEE-754 binary64 value (field f) that numpy/Python produce *)
(* with round-to-nearest-even, and next to it the value of the same        *)
(* expression over the rationals (field q), so that statements "in exact   *)
(* arithmetic" and statements about the computed doubles can both be       *)
(* checked.  Exponent range is not modelled (no overflow/underflow occurs  *)
(* for the magnitudes handled here).                                       *)
(***************************************************************************)
EXTENDS Integers, Sequences, FiniteSets, TLC

(***************************************************************************)
(* TLC evaluates an operator's argument anew at each place the operator    *)
(* uses it.  Operators therefore first bind their arguments as the         *)
(* elements of singleton sets, {body : a \in {A}}, which evaluates each    *)
(* argument once, and Only takes the body's value out of the set.          *)
(***************************************************************************)
Only(S) == CHOOSE y \in S : TRUE

Max(S) == CHOOSE x \in S : \A y \in S : y <= x

(***************************************************************************)
(* Natural numbers of arbitrary size: little-endian sequences of limbs,    *)
(* without leading zero limbs.  Needed because a binary64 significand has  *)
(* 53 bits.                                                                *)
(***************************************************************************)
LimbBits == 7 + 7
Base == 2^LimbBits

Limb(a, i) == IF i <= Len(a) THEN a[i] ELSE 0

\* drop the leading zero limbs
BNorm(A) ==
  Only({ IF nz = {} THEN <<>> ELSE SubSeq(a, 1, Max(nz)) :
           a \in {A}, nz \in {{i \in 1..Len(A) : A[i] # 0}} })

\* 0 <= n < 2^31
BFromInt(N) ==
  Only({ BNorm(<<n % Base, (n \div Base) % Base, n \div (Base * Base)>>) : n \in {N} })

\* -1, 0 or 1 as a < b, a = b or a > b
BCmp(A, B) ==
  Only({ IF Len(a) # Len(b) THEN (IF Len(a) > Len(b) THEN 1 ELSE 0 - 1)
         ELSE LET diff == {i \in 1..Len(a) : a[i] # b[i]}
              IN  IF diff = {} THEN 0
                  ELSE IF a[Max(diff)] > b[Max(diff)] THEN 1 ELSE 0 - 1 :
           a \in {A}, b \in {B} })

\* a + b.  The carry into limb i is 1 iff some lower limb generates a carry
\* and every limb between propagates it.
BAdd(A, B) ==
  Only({ LET n == IF Len(a) > Len(b) THEN Len(a) ELSE Len(b)
             s(i) == Limb(a, i) + Limb(b, i)
             carry(i) == IF \E j \in 1..(i - 1) :
                               s(j) >= Base /\ \A k \in (j + 1)..(i - 1) : s(k) = Base - 1
                         THEN 1 ELSE 0
         IN  BNorm([i \in 1..(n + 1) |-> (s(i) + carry(i)) % Base]) :
           a \in {A}, b \in {B} })

\* a - b for a >= b
BSub(A, B) ==
  Only({ LET borrow(i) == IF \E j \in 1..(i - 1) :
                                Limb(a, j) < Limb(b, j)
                                /\ \A k \in (j + 1)..(i - 1) : Limb(a, k) = Limb(b, k)
                          THEN 1 ELSE 0
         IN  BNorm([i \in 1..Len(a) |-> (a[i] - Limb(b, i) - borrow(i) + Base) % Base]) :
           a \in {A}, b \in {B} })

\* a * k for 0 <= k < Base
BMulSmall(A, K) ==
  Only({ BAdd([i \in 1..Len(a) |-> (a[i] * k) % Base],
              <<0>> \o [i \in 1..Len(a) |-> (a[i] * k) \div Base]) :
           a \in {A}, k \in {K} })

\* a * Base^n
BShiftLimbs(A, N) ==
  Only({ IF a = <<>> THEN a ELSE [i \in 1..n |-> 0] \o a : a \in {A}, n \in {N} })

RECURSIVE BMulFrom(_, _, _)
BMulFrom(A, B, J) ==
  Only({ IF j > Len(b) THEN <<>>
         ELSE BAdd(BShiftLimbs(BMulSmall(a, b[j]), j - 1), BMulFrom(a, b, j + 1)) :
           a \in {A}, b \in {B}, j \in {J} })

BMul(a, b) == BMulFrom(a, b, 1)

\* a * 2^k
BShl(A, K) ==
  Only({ BShiftLimbs(BMulSmall(a, 2^(k % LimbBits)), k \div LimbBits) :
           a \in {A}, k \in {K} })

\* floor(a / 2^k)
BShr(A, K) ==
  Only({ LET p == 2^(k % LimbBits)
         IN  BNorm([i \in 1..Len(t) |->
                      (t[i] \div p) + (Limb(t, i + 1) % p) * (Base \div p)]) :
           k \in {K},
           t \in {IF K \div LimbBits >= Len(A) THEN <<>>
                  ELSE SubSeq(A, K \div LimbBits + 1, Len(A))} })

\* number of bits of 0 <= n < Base
IntBitLen(N) ==
  Only({ CHOOSE k \in 0..LimbBits : n < 2^k /\ (k = 0 \/ n >= 2^(k - 1)) : n \in {N} })

BBitLen(A) ==
  Only({ IF a = <<>> THEN 0 ELSE (Len(a) - 1) * LimbBits + IntBitLen(a[Len(a)]) :
           a \in {A} })

BIsOdd(a) == a # <<>> /\ a[1] % 2 = 1

\* Long division in base Base (Knuth's algorithm D).  The divisor d has its
\* top limb >= Base/2, so that the digit estimated from the two top limbs of
\* the running remainder exceeds the true digit by at most 2.  The state is
\* the quotient q and remainder r so far and the limbs n still to bring down.
DivDigit(R1, D) ==
  Only({ IF BCmp(BMulSmall(d, q0), r1) <= 0 THEN q0
         ELSE IF BCmp(BMulSmall(d, q0 - 1), r1) <= 0 THEN q0 - 1
         ELSE q0 - 2 :
           r1 \in {R1}, d \in {D},
           q0 \in {LET est == (Limb(R1, Len(D) + 1) * Base + Limb(R1, Len(D))) \div D[Len(D)]
                   IN  IF est > Base - 1 THEN Base - 1 ELSE est} })

DivLimb(ST, D) ==
  Only({ [q |-> BNorm(<<digit>> \o st.q),
          r |-> BSub(r1, BMulSmall(d, digit)),
          n |-> SubSeq(st.n, 1, Len(st.n) - 1)] :
           st \in {ST}, d \in {D},
           r1 \in {BNorm(<<ST.n[Len(ST.n)]>> \o ST.r)},
           digit \in {DivDigit(BNorm(<<ST.n[Len(ST.n)]>> \o ST.r), D)} })

RECURSIVE DivLimbs(_, _)
DivLimbs(ST, D) ==
  Only({ IF st.n = <<>> THEN st ELSE DivLimbs(DivLimb(st, d), d) :
           st \in {ST}, d \in {D} })

\* quotient and remainder of n by d, d # 0
BDivMod(N, D) ==
  Only({ LET st == DivLimbs([q |-> <<>>, r |-> <<>>, n |-> BShl(n, sh)], BShl(d, sh))
         IN  Only({ [q |-> r.q, r |-> BShr(r.r, sh)] : r \in {st} }) :
           n \in {N}, d \in {D}, sh \in {LimbBits - IntBitLen(D[Len(D)])} })

(***************************************************************************)
(* IEEE-754 binary64 values, as produced by Python floats and by the       *)
(* float64 columns of pandas.  A finite non-zero value is                  *)
(* (-1)^s * m * 2^e with 2^52 <= m < 2^53.                                 *)
(***************************************************************************)
Precision == 53
GuardBits == Precision + 3

FZero(s) == [k |-> "zero", s |-> s, m |-> <<>>, e |-> 0]
FInf(s) == [k |-> "inf", s |-> s, m |-> <<>>, e |-> 0]
FNaN == [k |-> "nan", s |-> 0, m |-> <<>>, e |-> 0]
FFin(s, m, e) == [k |-> "fin", s |-> s, m |-> m, e |-> e]

Xor(s, t) == (s + t) % 2

\* round q * 2^e to Precision bits, where q has Precision bits and the part
\* cut off compares to one half as c does (-1, 0, 1); ties go to even
FRoundCut(S, Q, E, C) ==
  Only({ IF BBitLen(q1) > Precision THEN FFin(s, BShr(q1, 1), e + 1) ELSE FFin(s, q1, e) :
           s \in {S}, e \in {E},
           q1 \in {IF C > 0 \/ (C = 0 /\ BIsOdd(Q)) THEN BAdd(Q, <<1>>) ELSE Q} })

\* the double nearest to (-1)^s * (n + t) * 2^e, ties to even, where n > 0
\* and 0 < t < 1 iff sticky
FRound(S, N, E, Sticky) ==
  Only({ IF len <= Precision
         THEN FFin(s, BShl(n, Precision - len), e - (Precision - len))
         ELSE Only({ FRoundCut(s, q, e + (len - Precision),
                               LET c == BCmp(BSub(n, BShl(q, len - Precision)),
                                             BShl(<<1>>, len - Precision - 1))
                               IN  IF c = 0 /\ sticky THEN 1 ELSE c) :
                       q \in {BShr(n, len - Precision)} }) :
           s \in {S}, n \in {N}, e \in {E}, sticky \in {Sticky}, len \in {BBitLen(N)} })

\* int -> float64
FFromInt(N) ==
  Only({ IF n = 0 THEN FZero(0)
         ELSE IF n < 0 THEN FRound(1, BFromInt(0 - n), 0, FALSE)
         ELSE FRound(0, BFromInt(n), 0, FALSE) : n \in {N} })

FMul(A, B) ==
  Only({ IF a.k = "nan" \/ b.k = "nan" THEN FNaN
         ELSE IF a.k = "inf" \/ b.k = "inf"
              THEN (IF a.k = "zero" \/ b.k = "zero" THEN FNaN ELSE FInf(Xor(a.s, b.s)))
         ELSE IF a.k = "zero" \/ b.k = "zero" THEN FZero(Xor(a.s, b.s))
         ELSE FRound(Xor(a.s, b.s), BMul(a.m, b.m), a.e + b.e, FALSE) :
           a \in {A}, b \in {B} })

\* float64 true division with numpy's semantics: x/0 is +-inf, 0/0 is nan,
\* nothing is raised
FDiv(A, B) ==
  Only({ IF a.k = "nan" \/ b.k = "nan" THEN FNaN
         ELSE IF a.k = "inf"
              THEN (IF b.k = "inf" THEN FNaN ELSE FInf(Xor(a.s, b.s)))
         ELSE IF b.k = "inf" THEN FZero(Xor(a.s, b.s))
         ELSE IF b.k = "zero"
              THEN (IF a.k = "zero" THEN FNaN ELSE FInf(Xor(a.s, b.s)))
         ELSE IF a.k = "zero" THEN FZero(Xor(a.s, b.s))
         ELSE Only({ FRound(Xor(a.s, b.s), dm.q, a.e - b.e - GuardBits, dm.r # <<>>) :
                       dm \in {BDivMod(BShl(a.m, GuardBits), b.m)} }) :
           a \in {A}, b \in {B} })

FNeg(A) == Only({ IF a.k = "nan" THEN a ELSE [a EXCEPT !.s = 1 - a.s] : a \in {A} })

FAbs(a) == [a EXCEPT !.s = 0]

\* a + b for finite non-zero a and b
FAddFin(A, B) ==
  Only({ IF a.s = b.s THEN FRound(a.s, BAdd(x, y), emin, FALSE)
         ELSE IF c = 0 THEN FZero(0)
         ELSE IF c > 0 THEN FRound(a.s, BSub(x, y), emin, FALSE)
         ELSE FRound(b.s, BSub(y, x), emin, FALSE) :
           a \in {A}, b \in {B},
           emin \in {IF A.e < B.e THEN A.e ELSE B.e},
           x \in {BShl(A.m, A.e - (IF A.e < B.e THEN A.e ELSE B.e))},
           y \in {BShl(B.m, B.e - (IF A.e < B.e THEN A.e ELSE B.e))},
           c \in {BCmp(BShl(A.m, A.e - (IF A.e < B.e THEN A.e ELSE B.e)),
                       BShl(B.m, B.e - (IF A.e < B.e THEN A.e ELSE B.e)))} })

FAdd(A, B) ==
  Only({ IF a.k = "nan" \/ b.k = "nan" THEN FNaN
         ELSE IF a.k = "inf"
              THEN (IF b.k = "inf" /\ b.s # a.s THEN FNaN ELSE a)
         ELSE IF b.k = "inf" THEN b
         ELSE IF a.k = "zero"
              THEN (IF b.k = "zero" THEN FZero(IF a.s = 1 /\ b.s = 1 THEN 1 ELSE 0)
                    ELSE b)
         ELSE IF b.k = "zero" THEN a
         ELSE FAddFin(a, b) :
           a \in {A}, b \in {B} })

FSub(a, b) == FAdd(a, FNeg(b))

\* a < b (false when either is nan)
FLess(a, b) ==
  Only({ d.k \in {"fin", "inf"} /\ d.s = 0 : d \in {FSub(b, a)} })

\* the double a decimal literal n/d denotes
FLit(n, d) == FDiv(FFromInt(n), FFromInt(d))

(***************************************************************************)
(* Rationals n/d in lowest terms with d > 0: the exact value of the        *)
(* expression the program evaluates in floating point.  d = 0 stands for   *)
(* "undefined" (a division by zero).                                       *)
(***************************************************************************)
RECURSIVE Gcd(_, _)
Gcd(A, B) == Only({ IF b = 0 THEN a ELSE Gcd(b, a % b) : a \in {A}, b \in {B} })

IntAbs(n) == IF n < 0 THEN 0 - n ELSE n

QUndef == [n |-> 0, d |-> 0]

QMake(N, D) ==
  Only({ IF d = 0 THEN QUndef
         ELSE Only({ IF d < 0 THEN [n |-> 0 - (n \div g), d |-> 0 - (d \div g)]
                     ELSE [n |-> n \div g, d |-> d \div g] :
                       g \in {Gcd(IntAbs(n), IntAbs(d))} }) :
           n \in {N}, d \in {D} })

QMul(A, B) ==
  Only({ IF a.d = 0 \/ b.d = 0 THEN QUndef
         ELSE Only({ QMake(x.n * y.n, x.d * y.d) :
                       x \in {QMake(a.n, b.d)}, y \in {QMake(b.n, a.d)} }) :
           a \in {A}, b \in {B} })

QDiv(A, B) ==
  Only({ IF b.d = 0 \/ b.n = 0 THEN QUndef ELSE QMul(a, QMake(b.d, b.n)) :
           a \in {A}, b \in {B} })

(***************************************************************************)
(* A numeric value of the program: the computed double and the exact value.*)
(***************************************************************************)
NumLit(n, d) == [f |-> FLit(n, d), q |-> QMake(n, d)]

Div(A, B) ==
  Only({ [f |-> FDiv(a.f, b.f), q |-> QDiv(a.q, b.q)] : a \in {A}, b \in {B} })

Mul(A, B) ==
  Only({ [f |-> FMul(a.f, b.f), q |-> QMul(a.q, b.q)] : a \in {A}, b \in {B} })

(***************************************************************************)
(* The conversion constant and the two conversions the program writes      *)
(* inline.                                                                 *)
(***************************************************************************)
M == NumLit(1801559, 100000)

toMmol(x) == Div(x, M)

\* variant: the constant rounded to four decimals
toMgdl_Rounded(x) == Mul(x, NumLit(180156, 10000))

toMgdl(x) == Mul(x, M)

(***************************************************************************)
(* DataFrames.  A DataFrame is an object on the heap: a set of column      *)
(* names and a sequence of rows, each row a function from the column names *)
(* to values.  A Series is a sequence of values.  Column names are written *)
(* without accents.                                                        *)
(***************************************************************************)
NoRef == "None"

DataFrame(rows, columns) == [columns |-> columns, rows |-> rows]

\* variant: no copy is made, the result is the argument itself
DataFrameCopy_Alias(H, Ref) == [heap |-> H, ref |-> Ref]

\* df.copy(): a new object with the same contents
DataFrameCopy(H, Ref) ==
  Only({ [heap |-> ("df_plot" :> h[ref]) @@ h, ref |-> "df_plot"] :
           h \in {H}, ref \in {Ref} })

\* df[col]
GetItem(H, Ref, Col) ==
  Only({ [i \in 1..Len(t.rows) |-> t.rows[i][col]] : t \in {H[Ref]}, col \in {Col} })

\* df[col] = series
SetItem(H, Ref, Col, Series) ==
  Only({ [h EXCEPT ![ref] =
            [columns |-> t.columns \cup {col},
             rows |-> [i \in 1..Len(t.rows) |->
                         [c \in DOMAIN t.rows[i] \cup {col} |->
                            IF c = col THEN series[i] ELSE t.rows[i][c]]]]] :
           h \in {H}, ref \in {Ref}, col \in {Col}, series \in {Series},
           t \in {H[Ref]} })

\* series / scalar, series * scalar, series / series (element-wise)
SeriesDivScalar(A, C) ==
  Only({ [i \in 1..Len(a) |-> Div(a[i], c)] : a \in {A}, c \in {C} })

SeriesMulScalar(A, C) ==
  Only({ [i \in 1..Len(a) |-> Mul(a[i], c)] : a \in {A}, c \in {C} })

SeriesDiv(A, B) ==
  Only({ [i \in 1..Len(a) |-> Div(a[i], b[i])] : a \in {A}, b \in {B} })

(***************************************************************************)
(* prepare_df_plot, statement by statement.  Each statement maps the       *)
(* function's environment (the heap, the arguments and the locals) to the  *)
(* environment after it.                                                   *)
(***************************************************************************)
\* the rows in ascending order of Datetime
SortRows(rows) ==
  LET n == Len(rows)
      p == CHOOSE f \in [1..n -> 1..n] :
             /\ \A i, j \in 1..n : i # j => f[i] # f[j]
             /\ \A i \in 1..(n - 1) : rows[f[i]].Datetime <= rows[f[i + 1]].Datetime
  IN  [i \in 1..n |-> rows[p[i]]]

\* variant: the copy is sorted by time (df.sort_values("Datetime"))
CopyInput_Sorted(E) ==
  Only({ [e EXCEPT !.heap = [c.heap EXCEPT ![c.ref].rows = SortRows(@)],
                   !.df_plot = c.ref] :
           e \in {E}, c \in {DataFrameCopy(E.heap, E.df)} })

\* df_plot = df.copy()
CopyInput(E) ==
  Only({ [e EXCEPT !.heap = c.heap, !.df_plot = c.ref] :
           e \in {E}, c \in {DataFrameCopy(E.heap, E.df)} })

\* df_plot["Glycemie_affichee"] = ...
SetDisplayGlucose(E) ==
  Only({ [e EXCEPT !.heap =
            SetItem(e.heap, e.df_plot, "Glycemie_affichee",
                    IF e.unit_glucose = "mmol/L"
                    THEN SeriesDivScalar(GetItem(e.heap, e.df_plot, "Glycemie"), M)
                    ELSE GetItem(e.heap, e.df_plot, "Glycemie"))] :
           e \in {E} })

\* df_plot["Cetonemie_affichee"] = df_plot["Cetonemie"]
SetDisplayKetone(E) ==
  Only({ [e EXCEPT !.heap =
            SetItem(e.heap, e.df_plot, "Cetonemie_affichee",
                    GetItem(e.heap, e.df_plot, "Cetonemie"))] :
           e \in {E} })

\* variant: the unit tests of the GKI follow the display rule (convert when
\* the unit is mmol/L)
ComputeGlyMmol_DisplayRule(E) ==
  Only({ [e EXCEPT !.gly_mmol =
            IF e.gki_mode = "Full mmol"
            THEN (IF e.unit_glucose = "mmol/L"
                  THEN SeriesDivScalar(GetItem(e.heap, e.df_plot, "Glycemie"), M)
                  ELSE GetItem(e.heap, e.df_plot, "Glycemie"))
            ELSE SeriesDivScalar(
                   IF e.unit_glucose = "mmol/L"
                   THEN GetItem(e.heap, e.df_plot, "Glycemie")
                   ELSE SeriesMulScalar(GetItem(e.heap, e.df_plot, "Glycemie"), M),
                   M)] :
           e \in {E} })

\* variant: Standard mode without its final division by M
ComputeGlyMmol_NoFinalDiv(E) ==
  Only({ [e EXCEPT !.gly_mmol =
            IF e.gki_mode = "Full mmol"
            THEN (IF e.unit_glucose = "mg/dL"
                  THEN SeriesDivScalar(GetItem(e.heap, e.df_plot, "Glycemie"), M)
                  ELSE GetItem(e.heap, e.df_plot, "Glycemie"))
            ELSE (IF e.unit_glucose = "mg/dL"
                  THEN GetItem(e.heap, e.df_plot, "Glycemie")
                  ELSE SeriesMulScalar(GetItem(e.heap, e.df_plot, "Glycemie"), M))] :
           e \in {E} })

\* if gki_mode == "Full mmol": gly_mmol = ... else: gly_mmol = ...; gly_mmol /= M
ComputeGlyMmol(E) ==
  Only({ [e EXCEPT !.gly_mmol =
            IF e.gki_mode = "Full mmol"
            THEN (IF e.unit_glucose = "mg/dL"
                  THEN SeriesDivScalar(GetItem(e.heap, e.df_plot, "Glycemie"), M)
                  ELSE GetItem(e.heap, e.df_plot, "Glycemie"))
            ELSE SeriesDivScalar(
                   IF e.unit_glucose = "mg/dL"
                   THEN GetItem(e.heap, e.df_plot, "Glycemie")
                   ELSE SeriesMulScalar(GetItem(e.heap, e.df_plot, "Glycemie"), M),
                   M)] :
           e \in {E} })

\* variant: the ratio inverted (ketone / glucose)
SetGKI_Inverted(E) ==
  Only({ [e EXCEPT !.heap =
            SetItem(e.heap, e.df_plot, "GKI",
                    SeriesDiv(GetItem(e.heap, e.df_plot, "Cetonemie"), e.gly_mmol))] :
           e \in {E} })

\* variant: rows whose ketone is not positive are dropped from the result
SetGKI_DropNonPositive(E) ==
  Only({ [e EXCEPT !.heap =
            [h EXCEPT ![e.df_plot].rows =
               LET Keep(row) == row["Cetonemie"].q.n > 0 IN SelectSeq(@, Keep)]] :
           e \in {E},
           h \in {SetItem(E.heap, E.df_plot, "GKI",
                          SeriesDiv(E.gly_mmol, GetItem(E.heap, E.df_plot, "Cetonemie")))} })

\* df_plot["GKI"] = gly_mmol / df_plot["Cetonemie"]
SetGKI(E) ==
  Only({ [e EXCEPT !.heap =
            SetItem(e.heap, e.df_plot, "GKI",
                    SeriesDiv(e.gly_mmol, GetItem(e.heap, e.df_plot, "Cetonemie")))] :
           e \in {E} })

\* prepare_df_plot(df, unit_glucose, unit_ketone, gki_mode): the heap after
\* the call, the reference it returns, the value its local gly_mmol has when
\* it returns, and whether it raised.  (debug only prints.)
prepare_df_plot(h, df, unit_glucose_, unit_ketone_, gki_mode_) ==
  Only({ [heap |-> e.heap, ret |-> e.df_plot, gly_mmol |-> e.gly_mmol, raised |-> FALSE] :
           e \in {SetGKI(ComputeGlyMmol(SetDisplayKetone(SetDisplayGlucose(CopyInput(
                    [heap |-> h, df |-> df, unit_glucose |-> unit_glucose_,
                     unit_ketone |-> unit_ketone_, gki_mode |-> gki_mode_,
                     df_plot |-> NoRef, gly_mmol |-> <<>>])))))} })

(***************************************************************************)
(* The embedded self-tests.  Each operator is TRUE iff no assertion of the *)
(* test fails.                                                             *)
(***************************************************************************)
\* abs(a - b) < tol on floats
Within(a, b, tol) == FLess(FAbs(FSub(a.f, b.f)), tol.f)

test_glucose_conversion ==
  Only({ Within(reconverted_, mg_dl_, NumLit(1, 10)) :
           mg_dl_ \in {NumLit(90, 1)},
           reconverted_ \in {Mul(Div(NumLit(90, 1), M), M)} })

TestData ==
  DataFrame(
    <<[Datetime |-> 1, Glycemie |-> NumLit(90, 1), Cetonemie |-> NumLit(3, 2)],
      [Datetime |-> 2, Glycemie |-> NumLit(108, 1), Cetonemie |-> NumLit(2, 1)]>>,
    {"Datetime", "Glycemie", "Cetonemie"})

test_gki_calculation ==
  Only({ /\ \A i \in 1..2 : Within(df1[i], expected1[i], NumLit(1, 1000000))
         /\ \A i \in 1..2 : Within(df2[i], expected2[i], NumLit(1, 1000000)) :
           df1 \in {Only({ GetItem(r.heap, r.ret, "GKI") :
                      r \in {prepare_df_plot("test_data" :> TestData, "test_data",
                                             "mg/dL", "mmol/L", "Standard (mg/dL/mmol)")} })},
           df2 \in {Only({ GetItem(r.heap, r.ret, "GKI") :
                      r \in {prepare_df_plot("test_data" :> TestData, "test_data",
                                             "mg/dL", "mmol/L", "Full mmol")} })},
           expected1 \in {<<Div(Div(NumLit(90, 1), M), NumLit(3, 2)),
                            Div(Div(NumLit(108, 1), M), NumLit(2, 1))>>},
           expected2 \in {<<Div(Div(NumLit(90, 1), M), NumLit(3, 2)),
                            Div(Div(NumLit(108, 1), M), NumLit(2, 1))>>} })

TestDf ==
  DataFrame(
    <<[Datetime |-> 1, Glycemie |-> NumLit(90, 1), Cetonemie |-> NumLit(3, 2)]>>,
    {"Datetime", "Glycemie", "Cetonemie"})

test_prepare_df_plot ==
  Only({ /\ "GKI" \in out.heap[out.ret].columns
         /\ Within(GetItem(out.heap, out.ret, "GKI")[1], expected, NumLit(1, 1000000)) :
           out \in {prepare_df_plot("test_df" :> TestDf, "test_df", "mg/dL", "mmol/L",
                                    "Standard (mg/dL/mmol)")},
           expected \in {Div(Div(NumLit(90, 1), M), NumLit(3, 2))} })

\* the try/except around the three tests: what is printed
RunSelfTests ==
  IF test_glucose_conversion /\ test_gki_calculation /\ test_prepare_df_plot
  THEN "passed" ELSE "failed"

(***************************************************************************)
(* Bounds and input sets.                                                  *)
(***************************************************************************)
MaxRows == 2
LoGlucose == 20
HiGlucose == 600

\* readings a data file may hold: <<instant, glucose (mg/dL), ketone as a
\* fraction n/d (mmol/L)>>.  The program validates nothing, so zero and
\* negative ketone values are inputs as well.
Readings ==
  { <<1, 90, 3, 2>>, <<2, 108, 2, 1>>, <<3, 120, 3, 2>>,
    <<4, 90, 0, 1>>, <<5, 108, 0 - 1, 1>>, <<6, 0, 0, 1>> }

Row(r) ==
  [Datetime |-> r[1], Glycemie |-> NumLit(r[2], 1), Cetonemie |-> NumLit(r[3], r[4])]

InputColumns == {"Datetime", "Glycemie", "Cetonemie"}

Tables ==
  { DataFrame([i \in DOMAIN t |-> Row(t[i])], InputColumns) :
      t \in UNION { [1..n -> Readings] : n \in 0..MaxRows } }

\* what the two select boxes offer
UIUnits == {"mg/dL", "mmol/L"}
UIModes == {"Standard (mg/dL/mmol)", "Full mmol"}

\* what a caller of prepare_df_plot may pass
ArgUnits == UIUnits \cup {"g/L"}
ArgModes == UIModes \cup {"Other"}

Passwords == {"", "s3cret", "wrong"}
Secrets == {"s3cret", ""}

(***************************************************************************)
(* State.                                                                  *)
(***************************************************************************)
VARIABLES
  session_state,  \* st.session_state: a function, with key "authenticated" once set
  password,       \* the text in the password box
  secret,         \* st.secrets["APP_PASSWORD"]
  shown,          \* what the last run left on the page: "none", "gate" or "ui"
  gate_error,     \* whether "Mot de passe incorrect." is displayed
  auth_at_start,  \* session_state.authenticated when the current run started
  pc,             \* position of the current run ("idle": no run in progress)
  csv,            \* contents of data/metabo_data.csv
  heap,           \* the DataFrame objects
  unit_glucose,   \* select boxes / arguments of the call
  unit_ketone,
  gki_mode,
  df_plot,        \* reference returned by prepare_df_plot, or NoRef
  gly_mmol,       \* prepare_df_plot's local gly_mmol when it returned
  raised,         \* whether prepare_df_plot raised
  df_before,      \* the argument DataFrame as it was before the call
  tests_out,      \* what the self-tests printed
  nb_mesures,     \* the "Nb Mesures" metric
  mg_dl,          \* the conversion round trip: input,
  mmol_l,         \*   converted value,
  reconverted     \*   and value converted back

appVars == <<session_state, password, secret, shown, gate_error, auth_at_start,
             csv, tests_out, nb_mesures>>
callVars == <<heap, unit_glucose, unit_ketone, gki_mode, df_plot, gly_mmol, raised,
              df_before>>
convVars == <<mg_dl, mmol_l, reconverted>>
vars == <<appVars, callVars, convVars, pc>>

Nothing == <<>>

AppInit ==
  /\ session_state = Nothing
  /\ password = ""
  /\ shown = "none"
  /\ gate_error = FALSE
  /\ auth_at_start = FALSE
  /\ tests_out = ""
  /\ nb_mesures = 0

CallInit ==
  /\ unit_ketone = "mmol/L"
  /\ df_plot = NoRef
  /\ gly_mmol = Nothing
  /\ raised = FALSE

ConvInit ==
  /\ mmol_l = Nothing
  /\ reconverted = Nothing

(***************************************************************************)
(* The application: one browser session; every user event reruns the       *)
(* script from the top.                                                    *)
(***************************************************************************)
Init ==
  /\ AppInit /\ CallInit /\ ConvInit
  /\ secret \in Secrets
  /\ csv \in Tables
  /\ heap = Nothing
  /\ df_before = Nothing
  /\ unit_glucose = "mmol/L"
  /\ gki_mode = "Full mmol"
  /\ mg_dl = 0
  /\ pc = "idle"

Authenticated == "authenticated" \in DOMAIN session_state /\ session_state.authenticated

\* the top of the script: the flag is created if the session has none
BeginRun ==
  /\ session_state' = IF "authenticated" \in DOMAIN session_state
                      THEN session_state ELSE [authenticated |-> FALSE]
  /\ auth_at_start' = Authenticated
  /\ pc' = "gate"

OpenPage ==
  /\ pc = "idle" /\ shown = "none"
  /\ BeginRun
  /\ UNCHANGED <<password, secret, shown, gate_error, csv, tests_out, nb_mesures,
                 callVars, convVars>>

EnterPassword(p) ==
  /\ pc = "idle" /\ shown = "gate"
  /\ password' = p
  /\ BeginRun
  /\ UNCHANGED <<secret, shown, gate_error, csv, tests_out, nb_mesures,
                 callVars, convVars>>

SelectParams(u, m) ==
  /\ pc = "idle" /\ shown = "ui"
  /\ unit_glucose' = u
  /\ gki_mode' = m
  /\ BeginRun
  /\ UNCHANGED <<password, secret, shown, gate_error, csv, tests_out, nb_mesures,
                 heap, unit_ketone, df_plot, gly_mmol, raised, df_before, convVars>>

\* variant: the password is compared without the test that it is not empty
Gate_NoEmptyTest ==
  /\ pc = "gate"
  /\ IF ~session_state.authenticated
     THEN /\ shown' = "gate"
          /\ IF password = secret
             THEN /\ session_state' = [session_state EXCEPT !.authenticated = TRUE]
                  /\ auth_at_start' = TRUE
                  /\ gate_error' = FALSE
                  /\ pc' = "gate"
             ELSE /\ gate_error' = (password # "")
                  /\ pc' = "idle"
                  /\ UNCHANGED <<session_state, auth_at_start>>
     ELSE /\ pc' = "load"
          /\ UNCHANGED <<session_state, auth_at_start, shown, gate_error>>
  /\ UNCHANGED <<password, secret, csv, tests_out, nb_mesures, callVars, convVars>>

\* the authentication block
Gate ==
  /\ pc = "gate"
  /\ IF ~session_state.authenticated
     THEN /\ shown' = "gate"
          /\ IF password # "" /\ password = secret
             THEN \* st.rerun(): this run ends and the script starts again
                  /\ session_state' = [session_state EXCEPT !.authenticated = TRUE]
                  /\ auth_at_start' = TRUE
                  /\ gate_error' = FALSE
                  /\ pc' = "gate"
             ELSE \* st.stop()
                  /\ gate_error' = (password # "")
                  /\ pc' = "idle"
                  /\ UNCHANGED <<session_state, auth_at_start>>
     ELSE /\ pc' = "load"
          /\ UNCHANGED <<session_state, auth_at_start, shown, gate_error>>
  /\ UNCHANGED <<password, secret, csv, tests_out, nb_mesures, callVars, convVars>>

Load ==
  /\ pc = "load"
  /\ heap' = ("df" :> csv)
  /\ df_plot' = NoRef
  /\ pc' = "tests"
  /\ UNCHANGED <<appVars, unit_glucose, unit_ketone, gki_mode, gly_mmol, raised,
                 df_before, convVars>>

SelfTests ==
  /\ pc = "tests"
  /\ tests_out' = RunSelfTests
  /\ pc' = "ui"
  /\ UNCHANGED <<session_state, password, secret, shown, gate_error, auth_at_start,
                 csv, nb_mesures, callVars, convVars>>

Derive ==
  /\ pc = "ui"
  /\ \E r \in {prepare_df_plot(heap, "df", unit_glucose, unit_ketone, gki_mode)} :
       /\ heap' = r.heap
       /\ df_plot' = r.ret
       /\ gly_mmol' = r.gly_mmol
       /\ raised' = r.raised
  /\ shown' = "ui"
  /\ pc' = "chart"
  /\ UNCHANGED <<session_state, password, secret, gate_error, auth_at_start, csv,
                 tests_out, nb_mesures, unit_glucose, unit_ketone, gki_mode,
                 df_before, convVars>>

Render ==
  /\ pc = "chart"
  /\ nb_mesures' = Len(heap[df_plot].rows)
  /\ pc' = "idle"
  /\ UNCHANGED <<session_state, password, secret, shown, gate_error, auth_at_start,
                 csv, tests_out, callVars, convVars>>

Next ==
  \/ OpenPage
  \/ \E p \in Passwords : EnterPassword(p)
  \/ \E u \in UIUnits, m \in UIModes : SelectParams(u, m)
  \/ Gate
  \/ Load
  \/ SelfTests
  \/ Derive
  \/ Render

Spec == Init /\ [][Next]_vars

(***************************************************************************)
(* prepare_df_plot as a function: any table, any argument values.          *)
(***************************************************************************)
InitPrep ==
  /\ AppInit /\ CallInit /\ ConvInit
  /\ secret = ""
  /\ csv \in Tables
  /\ heap = ("df" :> csv)
  /\ df_before = csv
  /\ unit_glucose \in ArgUnits
  /\ gki_mode \in ArgModes
  /\ mg_dl = 0
  /\ pc = "call"

Call ==
  /\ pc = "call"
  /\ \E r \in {prepare_df_plot(heap, "df", unit_glucose, unit_ketone, gki_mode)} :
       /\ heap' = r.heap
       /\ df_plot' = r.ret
       /\ gly_mmol' = r.gly_mmol
       /\ raised' = r.raised
  /\ pc' = "done"
  /\ UNCHANGED <<appVars, unit_glucose, unit_ketone, gki_mode, df_before, convVars>>

NextPrep == Call

SpecPrep == InitPrep /\ [][NextPrep]_vars

(***************************************************************************)
(* The glucose conversion round trip of test_glucose_conversion, for any   *)
(* glucose value of the physiological range.                               *)
(***************************************************************************)
InitConv ==
  /\ AppInit /\ CallInit /\ ConvInit
  /\ secret = ""
  /\ csv = DataFrame(<<>>, InputColumns)
  /\ heap = Nothing
  /\ df_before = Nothing
  /\ unit_glucose = "mg/dL"
  /\ gki_mode = "Full mmol"
  /\ mg_dl \in LoGlucose..HiGlucose
  /\ pc = "convert"

Convert ==
  /\ pc = "convert"
  /\ mmol_l' = toMmol(NumLit(mg_dl, 1))
  /\ reconverted' = toMgdl(mmol_l')
  /\ pc' = "converted"
  /\ UNCHANGED <<appVars, callVars, mg_dl>>

NextConv == Convert

SpecConv == InitConv /\ [][NextConv]_vars

(***************************************************************************)
(* Properties.                                                             *)
(***************************************************************************)
\* the call of SpecPrep has returned
Returned == pc = "done"

\* the readings passed in and the rows of the table returned
InRows == df_before.rows
OutRows == heap[df_plot].rows

\* the two modes the interface offers
StandardMode == gki_mode = "Standard (mg/dL/mmol)"
FullMmolMode == gki_mode = "Full mmol"

\* |a - b| <= |b| * 10^-15 on floats
RelClose(a, b) ==
  \/ a = b
  \/ FLess(FAbs(FSub(a, b)), FMul(FAbs(b), FMul(FLit(1, 1000000000), FLit(1, 1000000))))

C2_FullMmolNumerator ==
  (Returned /\ FullMmolMode /\ unit_glucose \in UIUnits) =>
    /\ Len(gly_mmol) = Len(InRows)
    /\ Len(OutRows) = Len(InRows)
    /\ \A i \in 1..Len(InRows) :
         /\ unit_glucose = "mg/dL" => gly_mmol[i] = toMmol(InRows[i].Glycemie)
         /\ unit_glucose = "mmol/L" => gly_mmol[i] = InRows[i].Glycemie
         /\ OutRows[i].GKI = Div(gly_mmol[i], InRows[i].Cetonemie)

\* C2 witness: a FullMmol call with the unit mg/dL has returned for a table
\* with a reading whose numerator is a converted value
C2_Witness ==
  /\ Returned /\ FullMmolMode /\ unit_glucose = "mg/dL"
  /\ \E i \in 1..Len(InRows) :
       /\ InRows[i].Glycemie = NumLit(108, 1)
       /\ gly_mmol[i] # InRows[i].Glycemie

\* the readings with glucose 90 and ketone 1.5
IsSample(row) == row.Glycemie = NumLit(90, 1) /\ row.Cetonemie = NumLit(3, 2)

\* C3 (as amended): for glucose 90, ketone 1.5, unit mg/dL, Standard mode, the
\* GKI is (90 / M) / 1.5, which is 3.3304 to four decimals.
C3_SampleGKI ==
  (Returned /\ StandardMode /\ unit_glucose = "mg/dL") =>
    \A i \in 1..Len(InRows) :
      IsSample(InRows[i]) =>
        /\ OutRows[i].GKI = Div(Div(NumLit(90, 1), M), NumLit(3, 2))
        /\ Within(OutRows[i].GKI, NumLit(33304, 10000), NumLit(5, 100000))

\* C3 witness: the call has returned for a table that holds the reading
\* (90, 1.5), with the unit mg/dL and Standard mode
C3_Witness ==
  /\ Returned /\ StandardMode /\ unit_glucose = "mg/dL"
  /\ \E i \in 1..Len(InRows) : IsSample(InRows[i]) /\ OutRows[i].GKI.f.k = "fin"

\* C3 (as stated): for glucose 90, ketone 1.5, unit mg/dL, Standard mode, the
\* GKI is (90 / M) / 1.5 and is 2.9974 to four decimals.
C3_AsStated ==
  (Returned /\ StandardMode /\ unit_glucose = "mg/dL") =>
    \A i \in 1..Len(InRows) :
      IsSample(InRows[i]) =>
        /\ OutRows[i].GKI = Div(Div(NumLit(90, 1), M), NumLit(3, 2))
        /\ Within(OutRows[i].GKI, NumLit(29974, 10000), NumLit(5, 100000))

\* C4: a call with a glucose unit other than mg/dL and mmol/L, or a GKI mode
\* other than Standard and FullMmol, fails with an error and returns no table.
C4_FailFast ==
  (Returned /\ (unit_glucose \notin UIUnits \/ gki_mode \notin UIModes)) =>
    (raised /\ df_plot = NoRef)

\* C5: for every integer glucose value x of 20..600 mg/dL,
\* |toMgdl(toMmol(x)) - x| < 1e-6 in float64.
C5_RoundTrip ==
  (pc = "converted") =>
    /\ mmol_l = toMmol(NumLit(mg_dl, 1))
    /\ Within(reconverted, NumLit(mg_dl, 1), NumLit(1, 1000000))

\* C5 witness: a round trip has been computed whose float64 result is not
\* the value it started from
C5_Witness ==
  /\ pc = "converted"
  /\ reconverted.f # FFromInt(mg_dl)
  /\ mmol_l.f.k = "fin"

\* C6: the table returned has as many rows as the table passed in, and its
\* i-th row carries the timestamp of the i-th row passed in.
C6_SameRowsSameOrder ==
  Returned =>
    /\ df_plot # NoRef
    /\ Len(OutRows) = Len(InRows)
    /\ \A i \in 1..Len(InRows) : OutRows[i].Datetime = InRows[i].Datetime

\* C6 witness: the call has returned for a table of two readings that are not
\* in ascending time order, one of them with ketone 0
C6_Witness ==
  /\ Returned
  /\ Len(InRows) >= 2
  /\ InRows[1].Datetime > InRows[2].Datetime
  /\ InRows[2].Cetonemie.q.n = 0
  /\ OutRows[1].Datetime > OutRows[2].Datetime

\* the sequence without its i-th element
RemoveAt(seq, i) ==
  [j \in 1..(Len(seq) - 1) |-> IF j < i THEN seq[j] ELSE seq[j + 1]]

\* the GKI column prepare_df_plot returns for the readings passed in less the
\* i-th one, under the arguments of the call
GKIWithout(i) ==
  Only({ GetItem(r.heap, r.ret, "GKI") :
           r \in {prepare_df_plot("df" :> DataFrame(RemoveAt(InRows, i), InputColumns),
                                  "df", unit_glucose, unit_ketone, gki_mode)} })

\* C7: a reading whose ketone is <= 0 neither makes the call raise nor is
\* dropped; its GKI is infinite or NaN when the ketone is 0 and carries the
\* minus sign when the ketone is negative; and the GKI of every other reading
\* is what the call returns for it when that reading is absent.
C7_NonPositiveKetone ==
  Returned =>
    /\ ~raised
    /\ df_plot # NoRef
    /\ Len(OutRows) = Len(InRows)
    /\ \A i \in 1..Len(InRows) :
         InRows[i].Cetonemie.q.n <= 0 =>
           /\ OutRows[i].Cetonemie = InRows[i].Cetonemie
           /\ InRows[i].Cetonemie.q.n = 0 => OutRows[i].GKI.f.k \in {"inf", "nan"}
           /\ InRows[i].Cetonemie.q.n < 0 =>
                OutRows[i].GKI.f.k = "fin" /\ OutRows[i].GKI.f.s = 1
           /\ \E without \in {GKIWithout(i)} :
                \A j \in 1..Len(InRows) :
                  j # i => OutRows[j].GKI = without[IF j < i THEN j ELSE j - 1]

\* C7 witness: the call has returned for a table with a reading of ketone 0,
\* whose GKI is infinite, next to a reading of positive ketone, whose GKI is
\* finite
C7_Witness ==
  /\ Returned
  /\ \E i, j \in 1..Len(InRows) :
       /\ InRows[i].Cetonemie.q.n = 0
       /\ OutRows[i].GKI.f.k = "inf"
       /\ InRows[j].Cetonemie.q.n > 0
       /\ OutRows[j].GKI.f.k = "fin"

\* C8: after the call the table passed in is what it was before the call and
\* has no derived column; the derived columns exist only in the returned
\* table, which is another object.
C8_InputNotMutated ==
  Returned =>
    /\ heap["df"] = df_before
    /\ heap["df"].columns = InputColumns
    /\ df_plot # "df"
    /\ {"Glycemie_affichee", "Cetonemie_affichee", "GKI"} \subseteq heap[df_plot].columns

\* C8 witness: the call has returned for a table with readings, and the
\* returned table has the GKI column
C8_Witness ==
  /\ Returned
  /\ Len(InRows) >= 1
  /\ df_plot # NoRef
  /\ "GKI" \in heap[df_plot].columns
  /\ "GKI" \notin heap["df"].columns

\* the steps of a run that come after the authentication block
PastGate == pc \in {"load", "tests", "ui", "chart"}

\* C9: a run is past the authentication block only if the session's flag was
\* true when the run started; the flag goes from false to true only in a
\* step where the password entered is non-empty and equal to the secret; and
\* a run of an unauthenticated session whose password is empty or wrong
\* stops at the block with no data loaded.
C9_AuthGate ==
  /\ [](PastGate => (auth_at_start /\ Authenticated))
  /\ [][(~Authenticated /\ Authenticated') => (password # "" /\ password = secret)]_vars
  /\ [][(pc = "gate" /\ ~Authenticated /\ (password = "" \/ password # secret)) =>
          (pc' = "idle" /\ ~Authenticated' /\ heap' = heap /\ df_plot' = df_plot)]_vars

\* C9 witness: a run of an authenticated session has loaded the data and
\* derived the table, after the right password was entered
C9_Witness ==
  /\ pc = "chart"
  /\ auth_at_start
  /\ password # ""
  /\ password = secret
  /\ df_plot # NoRef

\* the GKI column prepare_df_plot returns for the readings passed in under
\* FullMmol mode and the unit of the call
GKIFullMmol ==
  Only({ GetItem(r.heap, r.ret, "GKI") :
           r \in {prepare_df_plot("df" :> df_before, "df", unit_glucose, unit_ketone,
                                  "Full mmol")} })

\* C10: for each glucose unit, the GKI of Standard mode and the GKI of
\* FullMmol mode are the same number in exact arithmetic, for every reading.
C10_ModesAgreeExactly ==
  (Returned /\ StandardMode /\ unit_glucose \in UIUnits) =>
    \E full \in {GKIFullMmol} :
      /\ Len(full) = Len(OutRows)
      /\ \A i \in 1..Len(OutRows) : OutRows[i].GKI.q = full[i].q

\* C10 witness: a Standard-mode call has returned a GKI that is defined,
\* equals the FullMmol GKI exactly, and differs from it in float64
C10_Witness ==
  /\ Returned /\ StandardMode /\ unit_glucose = "mmol/L"
  /\ \E full \in {GKIFullMmol} :
       \E i \in 1..Len(InRows) :
         /\ OutRows[i].GKI.q.d # 0
         /\ OutRows[i].GKI.q = full[i].q
         /\ OutRows[i].GKI.f # full[i].f

=============================================================================
